---- MODULE Spec2Model ----
(***************************************************************************)
(* Model of src/app.py: a Streamlit script that provisions a vector store, *)
(* an assistant and a thread at a remote service, then runs chat turns by  *)
(* appending a message, starting a run and polling it.                     *)
(*                                                                         *)
(* The script is re-executed from the top for every UI event.  One script  *)
(* run is modelled as a chain of steps, one per remote call, with pc       *)
(* naming the call the run is about to issue; pc = "idle" is the state     *)
(* between two script runs.                                                *)
(***************************************************************************)
EXTENDS Integers, Sequences, FiniteSets, TLC

\* ----------------------------------------------------------------- bounds
MaxIds   == 6      \* identifiers the remote service hands out
MaxMsgs  == 2      \* turns in the local chat history
MaxPolls == 4      \* status fetches of one run
MaxFiles == 1      \* files in the file picker
MaxRemote == 2     \* messages of a remote thread when a turn is submitted

\* ------------------------------------------------------------ input values
Prompts == {"p", "q"}            \* non-empty texts typed into the chat input
Texts   == {"", "a"}             \* texts of a remote message
Keys    == {"", "sk"}            \* contents of the API key field
Polling == {"queued", "in_progress"}
Terminal == {"completed", "failed", "cancelled"}
Statuses == Polling \cup Terminal

None == 0                        \* Python's None for a handle; ids are >= 1

VARIABLES
    api_key,          \* text of the API key field (line 29)
    uploaded_files,   \* number of files selected when setup is clicked (line 159)
    messages,         \* st.session_state.messages
    assistant_id,     \* st.session_state.assistant_id
    thread_id,        \* st.session_state.thread_id
    vector_store_id,  \* st.session_state.vector_store_id
    pc,               \* position of the running script
    event,            \* the UI event the script run serves
    ret,              \* value returned by the last provisioning function
    prompt,           \* the submitted chat text (line 198)
    run,              \* the local `run` object of get_assistant_response
    calls,            \* remote calls issued by the current script run
    display,          \* messages shown by the current (else the last) script run
    panel,            \* the status panel as drawn by that run (lines 237-240)
    setup_succeeded,  \* line 179 has been executed in this session
    next_id,          \* remote service: next identifier to hand out
    threads,          \* remote service: messages of each thread
    assistants        \* remote service: the index each assistant searches

vars == <<api_key, uploaded_files, messages, assistant_id, thread_id,
          vector_store_id, pc, event, ret, prompt, run, calls, display,
          panel, setup_succeeded, next_id, threads, assistants>>

session == <<messages, assistant_id, thread_id, vector_store_id>>
handles == <<assistant_id, thread_id, vector_store_id>>
locals  == <<uploaded_files, ret, prompt, run>>
remote  == <<next_id, threads, assistants>>
widgets == <<api_key>>

\* ----------------------------------------------------------------- helpers
\* Python truthiness of a handle: None (and nothing else the service hands
\* out) is falsy.
Truthy(h) == h # None

Turn(role, content) == [role |-> role, content |-> content]

NoRun == [id |-> None, status |-> ""]

\* One remote call: the operation, the thread and the other handle it was
\* given, whether it returned (ok) or raised, and the status or text it
\* returned.
Call(op, thread, arg, ok, res) ==
    [op |-> op, thread |-> thread, arg |-> arg, ok |-> ok, res |-> res]

Shown(kind, arg) == [kind |-> kind, arg |-> arg]

\* The status panel, lines 238-240.
StatusPanel ==
    [rendered     |-> TRUE,
     assistant    |-> Truthy(assistant_id),
     thread       |-> Truthy(thread_id),
     vector_store |-> Truthy(vector_store_id)]

\* The panel of a script run that has not reached line 237, or never does
\* (st.stop() at line 37 or 44).
NoPanel ==
    [rendered |-> FALSE, assistant |-> FALSE, thread |-> FALSE,
     vector_store |-> FALSE]

\* Mutant: lines 35-44 left out, the script goes on without a client.
GateOpen_Always(key, init_ok) == TRUE

\* Lines 35-44: the credential gate.
GateOpen(key, init_ok) == key # "" /\ init_ok

GateMessage(key) ==
    IF key = "" THEN Shown("warning", "Please enter your OpenAI API key")
    ELSE Shown("error", "Error initializing OpenAI client")

\* Line 189: the chat interface is drawn.
ChatVisible == Truthy(assistant_id) /\ Truthy(thread_id)

Init ==
    /\ api_key = ""
    /\ uploaded_files = 0
    /\ messages = <<>>
    /\ assistant_id = None
    /\ thread_id = None
    /\ vector_store_id = None
    /\ pc = "idle"
    /\ event = "none"
    /\ ret = None
    /\ prompt = ""
    /\ run = NoRun
    /\ calls = <<>>
    /\ display = <<>>
    /\ panel = NoPanel
    /\ setup_succeeded = FALSE
    /\ next_id = 1
    /\ threads = [t \in {} |-> <<>>]
    /\ assistants = [a \in {} |-> None]

\* ------------------------------------------------- reruns without a button
\* A script run that serves no button: the gate, then the page and footer.
Rerender(key, init_ok) ==
    /\ event' = "none"
    /\ calls' = <<>>
    /\ IF GateOpen(key, init_ok)
         THEN display' = <<>> /\ panel' = StatusPanel
         ELSE display' = <<GateMessage(key)>> /\ panel' = NoPanel

\* The user edits the API key field (line 29); the script reruns.
EnterApiKey(key, init_ok) ==
    /\ pc = "idle"
    /\ api_key' = key
    /\ Rerender(key, init_ok)
    /\ UNCHANGED <<session, pc, locals, setup_succeeded, remote>>

\* Any UI event while the gate is shut: the script stops at line 37 or 44.
GateStops(init_ok) ==
    /\ pc = "idle"
    /\ ~GateOpen(api_key, init_ok)
    /\ Rerender(api_key, init_ok)
    /\ UNCHANGED <<widgets, session, pc, locals, setup_succeeded, remote>>

\* ------------------------------------------------------------------- setup
\* Line 166: the setup button exists only while files are selected; n is
\* the number of files selected when it is clicked.
SetupClick(n) ==
    /\ pc = "idle"
    /\ GateOpen(api_key, TRUE)
    /\ n > 0
    /\ uploaded_files' = n
    /\ pc' = "upload"
    /\ event' = "setup"
    /\ calls' = <<>>
    /\ display' = <<>>
    /\ panel' = NoPanel
    /\ UNCHANGED <<widgets, session, ret, prompt, run, setup_succeeded, remote>>

\* The remote calls of upload_files_to_vector_store in the order Python
\* evaluates them: the store (line 51), one file per upload (line 64), the
\* batch (line 61).
UploadCalls(n, vs) ==
    <<Call("vector_stores.create", None, None, TRUE, "")>>
    \o [i \in 1..n |-> Call("files.create", None, None, TRUE, "")]
    \o <<Call("file_batches.upload_and_poll", None, vs, TRUE, "")>>

\* The calls issued when call number failAt raises (0: none raises).
IssuedCalls(all, failAt) ==
    IF failAt = 0 THEN all
    ELSE [i \in 1..failAt |->
            IF i = failAt THEN [all[i] EXCEPT !.ok = FALSE] ELSE all[i]]

\* Mutant: line 71 left out, the handle is returned but never stored.
UploadSessionId_NotStored(old, new, ok) == old

\* Mutant: line 71 moved up to line 54, before the files are uploaded.
UploadSessionId_StoredEarly(old, new, ok) == IF new # None THEN new ELSE old

\* Lines 71 and 74-76: the session's handle after the function.
UploadSessionId(old, new, ok) == IF ok THEN new ELSE old

\* Lines 72 and 76: the value the function returns.
ProvisionReturn(new, ok) == IF ok THEN new ELSE None

\* Mutant: the branch is taken whatever the function returned.
ProceedAlways(r) == TRUE

\* Line 170.
ProceedToAssistant(r) == Truthy(r)

\* Line 174.
ProceedToThread(r) == Truthy(r)

\* Line 178.
SetupReady(r) == Truthy(r)

\* upload_files_to_vector_store (lines 46-76) and the branch at line 170.
UploadFiles(failAt) ==
    /\ pc = "upload"
    /\ next_id <= MaxIds
    /\ LET ok      == failAt = 0
           created == failAt # 1
           new     == IF created THEN next_id ELSE None
           r       == ProvisionReturn(new, ok)
       IN  /\ vector_store_id' = UploadSessionId(vector_store_id, new, ok)
           /\ ret' = r
           /\ next_id' = IF created THEN next_id + 1 ELSE next_id
           /\ calls' = calls \o IssuedCalls(UploadCalls(uploaded_files, next_id), failAt)
           /\ display' = display
                \o (IF ok THEN <<>> ELSE <<Shown("error", "Error uploading files")>>)
                \o (IF ProceedToAssistant(r) THEN <<>>
                    ELSE <<Shown("sidebar_error", "Failed to upload files")>>)
           /\ pc' = IF ProceedToAssistant(r) THEN "assistant" ELSE "footer"
    /\ UNCHANGED <<widgets, messages, assistant_id, thread_id, event,
                   uploaded_files, prompt, run, panel, setup_succeeded, threads,
                   assistants>>

\* Line 96 and lines 99-101.
AssistantSessionId(old, new, ok) == IF ok THEN new ELSE old

\* The remote service after assistants.create (lines 81-94): the new
\* assistant searches the index it was given.  Only the assistant the
\* session can still address is kept.
AssistantsAfterCreate(new, store) == [a \in {new} |-> store]

\* create_assistant (lines 78-101) and the branch at line 174.
CreateAssistant(ok) ==
    /\ pc = "assistant"
    /\ next_id <= MaxIds
    /\ LET new == IF ok THEN next_id ELSE None
           r   == ProvisionReturn(new, ok)
       IN  /\ assistant_id' = AssistantSessionId(assistant_id, new, ok)
           /\ ret' = r
           /\ next_id' = IF ok THEN next_id + 1 ELSE next_id
           /\ calls' = Append(calls, Call("assistants.create", None, ret, ok, ""))
           /\ assistants' = IF ok THEN AssistantsAfterCreate(new, ret) ELSE assistants
           /\ display' = display
                \o (IF ok THEN <<>> ELSE <<Shown("error", "Error creating assistant")>>)
                \o (IF ProceedToThread(r) THEN <<>>
                    ELSE <<Shown("sidebar_error", "Failed to create assistant")>>)
           /\ pc' = IF ProceedToThread(r) THEN "thread" ELSE "footer"
    /\ UNCHANGED <<widgets, messages, thread_id, vector_store_id, event,
                   uploaded_files, prompt, run, panel, setup_succeeded, threads>>

\* The remote service after threads.create: the new thread is empty.  Only
\* the threads the session can still address are kept: the session never
\* names any other thread again.
ThreadsAfterCreate(new, held) ==
    [t \in (DOMAIN threads \cup {new}) \cap held |->
        IF t = new THEN <<>> ELSE threads[t]]

\* Mutant: line 107 left out.
ThreadSessionId_NotStored(old, new, ok) == old

\* Line 107 and lines 109-111.
ThreadSessionId(old, new, ok) == IF ok THEN new ELSE old

\* create_thread (lines 103-111): its effect on the session and the service.
CreateThread(ok) ==
    /\ next_id <= MaxIds
    /\ LET new == IF ok THEN next_id ELSE None
       IN  /\ thread_id' = ThreadSessionId(thread_id, new, ok)
           /\ ret' = ProvisionReturn(new, ok)
           /\ next_id' = IF ok THEN next_id + 1 ELSE next_id
           /\ threads' = IF ok THEN ThreadsAfterCreate(new, {thread_id'}) ELSE threads
           /\ calls' = Append(calls, Call("threads.create", None, None, ok, ""))
           /\ assistants' = assistants

\* Line 176 and the branch at line 178.
CreateThreadSetup(ok) ==
    /\ pc = "thread"
    /\ CreateThread(ok)
    /\ display' = display
         \o (IF ok THEN <<>> ELSE <<Shown("error", "Error creating thread")>>)
         \o (IF SetupReady(ret') THEN <<Shown("success", "RAG System Ready!")>>
             ELSE <<Shown("sidebar_error", "Failed to create conversation thread")>>)
    /\ setup_succeeded' = (setup_succeeded \/ SetupReady(ret'))
    /\ pc' = "footer"
    /\ UNCHANGED <<widgets, messages, assistant_id, vector_store_id, event,
                   uploaded_files, prompt, run, panel>>

\* -------------------------------------------------------------- chat turn
\* Python truthiness of Optional[str] (line 207): None and "" are falsy.
\* A response is <<>> for None and <<text>> for a string.
ResponseTruthy(response) == response # <<>> /\ response[1] # ""

\* Mutant: the loop waits for completed.
InLoop_UntilCompleted(status) == status # "completed"

\* Mutant: the loop waits on queued alone.
InLoop_QueuedOnly(status) == status = "queued"

\* Line 131: the loop condition.
InLoop(status) == status \in {"queued", "in_progress"}

\* Mutant: every status but failed counts as success.
RunCompleted_NotFailed(status) == status # "failed"

\* Line 138.
RunCompleted(status) == status = "completed"

\* Mutant: the message names a fixed status.
RunFailedError_Fixed(status) == Shown("Run failed with status: ", "failed")

\* Line 146: the error shown for a run that did not complete.
RunFailedError(status) == Shown("Run failed with status: ", status)

RECURSIVE Reverse(_)
Reverse(s) == IF s = <<>> THEN <<>> ELSE Append(Reverse(Tail(s)), Head(s))

\* The remote service's messages.list: most recent first.
MessagesListData(tid) == Reverse(threads[tid])

\* Line 144: the text of the first entry of the list.
ReplyOf(data) == data[1].content

\* The remote service finishing a run: when it reports completed, the run
\* has appended the assistant's message to the thread.
ThreadsAfterStatus(tid, status, text) ==
    IF status = "completed" /\ tid \in DOMAIN threads
      THEN [threads EXCEPT ![tid] = Append(@, Turn("assistant", text))]
      ELSE threads

\* The remote service's run lifecycle: queued, then in_progress, then one
\* terminal status; a fetch may also find the status unchanged.
NextStatuses(status) ==
    IF status = "queued" THEN Statuses
    ELSE IF status = "in_progress" THEN Statuses \ {"queued"}
    ELSE {status}

NumFetches == Cardinality({i \in DOMAIN calls : calls[i].op = "runs.retrieve"})

\* Lines 149-151 and 212-213: an exception inside get_assistant_response.
TurnRaises ==
    /\ display' = display \o <<Shown("error", "Error getting response"),
                               Shown("error", "Failed to get response from assistant")>>
    /\ pc' = "footer"

\* Mutant: the submitted text is stored as an assistant turn.
UserTurn_AsAssistant(p) == Turn("assistant", p)

\* Line 200: {"role": "user", "content": prompt}.
UserTurn(p) == Turn("user", p)

\* Lines 198-202: a text is submitted in the chat input.
ChatSubmit(p) ==
    /\ pc = "idle"
    /\ GateOpen(api_key, TRUE)
    /\ ChatVisible
    /\ Len(messages) < MaxMsgs
    /\ thread_id \in DOMAIN threads => Len(threads[thread_id]) < MaxRemote
    /\ next_id <= MaxIds
    /\ messages' = Append(messages, UserTurn(p))
    /\ prompt' = p
    /\ pc' = "messages_create"
    /\ event' = "chat"
    /\ calls' = <<>>
    /\ display' = <<>>
    /\ panel' = NoPanel
    /\ UNCHANGED <<widgets, handles, uploaded_files, ret, run, setup_succeeded,
                   remote>>

\* Mutant: the remote message is stored with the assistant's role.
MessageCreated_AsAssistant(p) == Turn("assistant", p)

\* Lines 117-121: the message threads.messages.create adds to the thread.
MessageCreated(p) == Turn("user", p)

\* Lines 117-121.
MessagesCreate(ok) ==
    /\ pc = "messages_create"
    /\ calls' = Append(calls, Call("messages.create", thread_id, None, ok /\ thread_id \in DOMAIN threads, ""))
    /\ IF ok /\ thread_id \in DOMAIN threads
         THEN /\ threads' = [threads EXCEPT ![thread_id] = Append(@, MessageCreated(prompt))]
              /\ pc' = "runs_create"
              /\ display' = display
         ELSE /\ threads' = threads
              /\ TurnRaises
    /\ UNCHANGED <<widgets, session, event, locals, panel, setup_succeeded, next_id,
                   assistants>>

\* Lines 125-128.
RunsCreate(ok, status, text) ==
    /\ pc = "runs_create"
    /\ next_id <= MaxIds
    /\ calls' = Append(calls, Call("runs.create", thread_id, assistant_id, ok, IF ok THEN status ELSE ""))
    /\ IF ok
         THEN /\ run' = [id |-> next_id, status |-> status]
              /\ next_id' = next_id + 1
              /\ threads' = ThreadsAfterStatus(thread_id, status, text)
              /\ pc' = "poll"
              /\ display' = display
         ELSE /\ UNCHANGED <<run, next_id, threads>>
              /\ TurnRaises
    /\ UNCHANGED <<widgets, session, event, uploaded_files, ret, prompt, panel,
                   setup_succeeded, assistants>>

\* Mutant: the fetch names the assistant.
RetrieveRunId_Assistant == assistant_id

\* Line 134: run_id=run.id.
RetrieveRunId == run.id

\* Lines 131-136: one iteration of the loop.
RunsRetrieve(ok, status, text) ==
    /\ pc = "poll"
    /\ InLoop(run.status)
    /\ NumFetches < MaxPolls
    /\ ok => status \in NextStatuses(run.status)
    /\ calls' = Append(calls, Call("runs.retrieve", thread_id, RetrieveRunId, ok,
                            IF ok THEN status ELSE ""))
    /\ IF ok
         THEN /\ run' = [run EXCEPT !.status = status]
              /\ threads' = ThreadsAfterStatus(thread_id, status, text)
              /\ pc' = "poll"
              /\ display' = display
         ELSE /\ UNCHANGED <<run, threads>>
              /\ TurnRaises
    /\ UNCHANGED <<widgets, session, event, uploaded_files, ret, prompt, panel,
                   setup_succeeded, next_id, assistants>>

\* Line 131 evaluating to false: the loop is left, line 138 is next.
LoopExit ==
    /\ pc = "poll"
    /\ ~InLoop(run.status)
    /\ pc' = "run_done"
    /\ UNCHANGED <<widgets, session, event, locals, calls, display, panel,
                   setup_succeeded, remote>>

\* Lines 138 and 145-147, then 212-213: the run did not complete.
RunNotCompleted ==
    /\ pc = "run_done"
    /\ ~RunCompleted(run.status)
    /\ display' = display \o <<RunFailedError(run.status),
                               Shown("error", "Failed to get response from assistant")>>
    /\ pc' = "footer"
    /\ UNCHANGED <<widgets, session, event, locals, calls, panel,
                   setup_succeeded, remote>>

\* Mutant: the reply replaces the history.
AfterResponse_Replace(response) ==
    IF ResponseTruthy(response)
      THEN /\ messages' = <<Turn("assistant", response[1])>>
           /\ display' = display
      ELSE /\ messages' = messages
           /\ display' = Append(display,
                           Shown("error", "Failed to get response from assistant"))

\* Lines 207-213: the chat handler's use of the response.
AfterResponse(response) ==
    IF ResponseTruthy(response)
      THEN /\ messages' = Append(messages, Turn("assistant", response[1]))
           /\ display' = display
      ELSE /\ messages' = messages
           /\ display' = Append(display,
                           Shown("error", "Failed to get response from assistant"))

\* Lines 138-144, then 207-213: the run completed; the list is fetched.
MessagesList(ok) ==
    /\ pc = "run_done"
    /\ RunCompleted(run.status)
    /\ thread_id \in DOMAIN threads
    /\ IF ok /\ threads[thread_id] # <<>>
         THEN LET text == ReplyOf(MessagesListData(thread_id))
              IN  /\ calls' = Append(calls,
                                Call("messages.list", thread_id, None, TRUE, text))
                  /\ AfterResponse(<<text>>)
                  /\ pc' = "footer"
         ELSE /\ calls' = Append(calls,
                            Call("messages.list", thread_id, None, FALSE, ""))
              /\ messages' = messages
              /\ TurnRaises
    /\ UNCHANGED <<widgets, handles, event, locals, panel, setup_succeeded, remote>>

\* -------------------------------------------------------------- clear chat
\* Lines 216-220: the history is emptied, create_thread is called, and the
\* script is rerun from the top, which redraws the page.
ClearChat(ok) ==
    /\ pc = "idle"
    /\ GateOpen(api_key, TRUE)
    /\ ChatVisible
    /\ messages' = <<>>
    /\ CreateThread(ok)
    /\ display' = <<>>
    /\ event' = "clear"
    /\ pc' = "footer"
    /\ panel' = NoPanel
    /\ UNCHANGED <<widgets, assistant_id, vector_store_id, uploaded_files,
                   prompt, run, setup_succeeded>>

\* Lines 235-243: the end of a script run; the run's locals go away.
Footer ==
    /\ pc = "footer"
    /\ panel' = StatusPanel
    /\ pc' = "idle"
    /\ event' = "none"
    /\ calls' = <<>>
    /\ uploaded_files' = 0
    /\ ret' = None
    /\ prompt' = ""
    /\ run' = NoRun
    /\ UNCHANGED <<widgets, session, display, setup_succeeded, remote>>

Next ==
    \/ \E key \in Keys, init_ok \in BOOLEAN : EnterApiKey(key, init_ok)
    \/ \E init_ok \in BOOLEAN : GateStops(init_ok)
    \/ \E n \in 0..MaxFiles : SetupClick(n)
    \/ \E failAt \in 0..(uploaded_files + 2) : UploadFiles(failAt)
    \/ \E ok \in BOOLEAN : CreateAssistant(ok)
    \/ \E ok \in BOOLEAN : CreateThreadSetup(ok)
    \/ \E p \in Prompts : ChatSubmit(p)
    \/ \E ok \in BOOLEAN : MessagesCreate(ok)
    \/ \E status \in Statuses, text \in Texts : RunsCreate(TRUE, status, text)
    \/ RunsCreate(FALSE, "", "")
    \/ \E status \in Statuses, text \in Texts : RunsRetrieve(TRUE, status, text)
    \/ RunsRetrieve(FALSE, "", "")
    \/ LoopExit
    \/ RunNotCompleted
    \/ \E ok \in BOOLEAN : MessagesList(ok)
    \/ \E ok \in BOOLEAN : ClearChat(ok)
    \/ Footer

Spec == Init /\ [][Next]_vars

\* ---------------------------------------------------------------- liveness
\* The remote run ends: the last status fetch the model explores does not
\* report queued or in_progress.
RunEnds ==
    (pc = "poll" /\ pc' = "poll" /\ NumFetches = MaxPolls - 1) =>
        run'.status \notin Polling

\* Whether a turn finishes does not depend on the text that was typed: the
\* liveness specification submits one prompt only.
OnePrompt == prompt' \in {"", "p"}

LiveNext == Next /\ RunEnds /\ OnePrompt

\* A step of the handler in progress.  The script is synchronous: once a
\* UI event has started a script run, the run executes statement after
\* statement, and every remote call returns or raises.
HandlerStep == pc # "idle" /\ LiveNext

LiveSpec == Init /\ [][LiveNext]_vars /\ WF_vars(HandlerStep)

\* A UI event being taken up: lines 29, 166, 198, 216.
UIEvent ==
    \/ \E key \in Keys, init_ok \in BOOLEAN : EnterApiKey(key, init_ok)
    \/ \E init_ok \in BOOLEAN : GateStops(init_ok)
    \/ \E n \in 0..MaxFiles : SetupClick(n)
    \/ \E p \in Prompts : ChatSubmit(p)
    \/ \E ok \in BOOLEAN : ClearChat(ok)

\* ================================================================== claims
Last(s) == s[Len(s)]

IsPrefix(a, b) == Len(a) <= Len(b) /\ \A i \in 1..Len(a) : a[i] = b[i]

AllSet == Truthy(vector_store_id) /\ Truthy(assistant_id) /\ Truthy(thread_id)

TurnPcs == {"messages_create", "runs_create", "poll", "run_done"}

InTurn == pc \in TurnPcs \/ (pc = "footer" /\ event = "chat")

AtEndOf(ev) == pc = "footer" /\ event = ev

HasCall(op) == \E i \in DOMAIN calls : calls[i].op = op

\* The last remote call of the script run raised.
Raised(cs) == cs # <<>> /\ ~Last(cs).ok

\* The statuses the run reported, in order: the one runs.create returned,
\* then the one each runs.retrieve returned.
IsStatusCall(c) == c.ok /\ c.op \in {"runs.create", "runs.retrieve"}
Observed == LET cs == SelectSeq(calls, IsStatusCall)
            IN  [i \in 1..Len(cs) |-> cs[i].res]

IsFetch(c) == c.ok /\ c.op = "runs.retrieve"
Fetched == LET cs == SelectSeq(calls, IsFetch)
           IN  [i \in 1..Len(cs) |-> cs[i].res]

\* The scripted statuses of the polling property.
Script == <<"queued", "in_progress", "in_progress", "completed">>

\* C1: a conversation turn is only ever submitted, and the chat interface
\* is only ever drawn, while the index handle, the assistant handle and the
\* conversation handle are all set, although line 189 tests two of them.
C1_TurnNeedsAllHandles ==
    /\ InTurn => AllSet
    /\ ChatVisible => Truthy(vector_store_id)

C1_Witness == pc = "messages_create" /\ AllSet

\* C2: the handles that are set form a prefix of (index, assistant,
\* conversation), and as long as no setup attempt has had all three steps
\* succeed the conversation handle is unset, so the prefix is strict.
C2_FailedSetupsStrictPrefix ==
    /\ Truthy(assistant_id) => Truthy(vector_store_id)
    /\ Truthy(thread_id) => Truthy(assistant_id)
    /\ ~setup_succeeded => ~Truthy(thread_id)

C2_Witness ==
    /\ AtEndOf("setup") /\ Raised(calls)
    /\ ~setup_succeeded
    /\ Truthy(assistant_id)

\* All three provisioning steps of the setup run returned.
SetupAllOk ==
    /\ \A i \in DOMAIN calls : calls[i].ok
    /\ HasCall("file_batches.upload_and_poll")
    /\ HasCall("assistants.create")
    /\ HasCall("threads.create")

AllReady ==
    [rendered |-> TRUE, assistant |-> TRUE, thread |-> TRUE,
     vector_store |-> TRUE]

\* C3: a setup run for any non-empty file selection, from any session
\* state, in which the three provisioning steps succeed ends with the three
\* handles set, and the status panel it draws shows all three as ready.
C3_SuccessfulSetupAllReady ==
    [][(AtEndOf("setup") /\ SetupAllOk) =>
          /\ uploaded_files >= 1
          /\ AllSet
          /\ AllSet'
          /\ panel' = AllReady]_vars

C3_Witness ==
    /\ pc = "idle"
    /\ display = <<Shown("success", "RAG System Ready!")>>
    /\ panel = AllReady
    /\ vector_store_id # 1

\* The turn is aborted: a remote call raised, or the run ended in a status
\* other than completed.
Aborted ==
    \/ Raised(calls)
    \/ (Observed # <<>> /\ Last(Observed) \notin Polling \cup {"completed"})

\* C4: an aborted turn changes the chat history by exactly one appended
\* user turn and no assistant turn: submitting appends the user turn, and
\* no later step of an aborted turn touches the history.
C4_AbortedTurnAddsOneUserTurn ==
    [][/\ (pc = "idle" /\ pc' = "messages_create") =>
             messages' = Append(messages, Turn("user", prompt'))
       /\ (pc \in TurnPcs /\ (pc' # "footer" \/ Aborted')) =>
             messages' = messages
       /\ (AtEndOf("chat") /\ Aborted) =>
             /\ messages' = messages
             /\ Last(messages) = Turn("user", prompt)]_vars

C4_Witness ==
    /\ AtEndOf("chat") /\ Aborted
    /\ Len(messages) >= 2
    /\ Last(messages) = Turn("user", prompt)

\* C5: when the run completed and the message list was returned, the turn
\* has appended exactly one assistant turn after the user turn, and its
\* content is the text of the most recent message of the remote thread,
\* whatever that text is.
C5_CompletedRunAppendsReply ==
    (AtEndOf("chat") /\ ~Raised(calls) /\ HasCall("messages.list")) =>
        /\ Len(messages) >= 2
        /\ messages[Len(messages) - 1] = Turn("user", prompt)
        /\ Last(messages) = Turn("assistant", Last(threads[thread_id]).content)

\* C6: "Clear chat" leaves the history empty and the conversation handle
\* set to a new handle, whatever the remote call does.
C6_ClearChatReplacesThread ==
    [][(pc = "idle" /\ event' = "clear") =>
          /\ messages' = <<>>
          /\ Truthy(thread_id')
          /\ thread_id' # thread_id]_vars

\* C7 as stated: with the status fetches scripted as Script, the loop is
\* left after exactly four fetches.
C7_FourFetchesForScript ==
    (pc = "run_done" /\ IsPrefix(Fetched, Script)) => NumFetches = 4

\* C7 as amended: the first status is the one runs.create returned; the
\* loop fetches again exactly while the last status it saw is queued or
\* in_progress; and when runs.create returned one of those two and the
\* fetches are scripted as Script, the loop is left after exactly four
\* fetches, on the script's last entry; when Script is what the run reports
\* from runs.create on, the loop is left after three fetches.
C7_PollingLoop ==
    /\ pc \in {"poll", "run_done"} =>
          /\ Observed # <<>>
          /\ run.status = Last(Observed)
          /\ \A i \in 1..(Len(Observed) - 1) : Observed[i] \in Polling
          /\ NumFetches = Len(Observed) - 1
    /\ pc = "run_done" => Last(Observed) \notin Polling
    /\ (pc = "run_done" /\ Observed[1] \in Polling /\ IsPrefix(Fetched, Script)) =>
          /\ Fetched = Script
          /\ NumFetches = 4
    /\ (pc = "run_done" /\ Observed = Script) => NumFetches = 3

C7_Witness ==
    /\ pc = "run_done"
    /\ Observed[1] \in Polling
    /\ Fetched = Script

\* C8: when the run ends in a status other than completed, the turn
\* appends no assistant turn, issues no messages.list, and shows an error
\* naming exactly that status.
C8_FailedRunNamesStatus ==
    (AtEndOf("chat") /\ ~Raised(calls) /\ Observed # <<>>
        /\ Last(Observed) # "completed") =>
        /\ Last(messages) = Turn("user", prompt)
        /\ ~HasCall("messages.list")
        /\ \E i \in DOMAIN display :
              display[i] = Shown("Run failed with status: ", Last(Observed))
        /\ \A i \in DOMAIN display :
              display[i].kind = "Run failed with status: " =>
                  display[i].arg = Last(Observed)

C8_Witness ==
    /\ AtEndOf("chat") /\ ~Raised(calls)
    /\ Observed # <<>> /\ Last(Observed) = "cancelled"
    /\ NumFetches >= 1

UploadOps == {"vector_stores.create", "files.create", "file_batches.upload_and_poll"}

\* C9 as stated: after a failed index provisioning the index handle is
\* unset, and after a failed assistant provisioning the assistant handle is
\* unset.
C9_FailureUnsetsHandle ==
    (AtEndOf("setup") /\ Raised(calls)) =>
        /\ Last(calls).op \in UploadOps => ~Truthy(vector_store_id)
        /\ Last(calls).op = "assistants.create" => ~Truthy(assistant_id)

\* C9 as amended: a failed index provisioning reports an error and leaves
\* the index handle as it was before the operation, and a failed assistant
\* provisioning does the same for the assistant handle: unset if it was
\* unset, still the earlier handle on a re-run of setup.
C9_FailureKeepsHandle ==
    [][/\ (pc = "upload" /\ Raised(calls')) =>
             /\ vector_store_id' = vector_store_id
             /\ ret' = None
             /\ \E i \in DOMAIN display' :
                   display'[i] = Shown("error", "Error uploading files")
       /\ (pc = "assistant" /\ Raised(calls')) =>
             /\ assistant_id' = assistant_id
             /\ ret' = None
             /\ \E i \in DOMAIN display' :
                   display'[i] = Shown("error", "Error creating assistant")]_vars

C9_Witness ==
    /\ AtEndOf("setup") /\ Raised(calls)
    /\ Last(calls).op = "file_batches.upload_and_poll"
    /\ Truthy(vector_store_id)
    /\ Last(calls).arg # vector_store_id

\* C10: setup halts at the first failing step: assistants.create is issued
\* only after the upload of the same setup run succeeded, and with that
\* run's index handle; threads.create is issued only after the
\* assistants.create of the same run succeeded; a call that raised is the
\* last call of the run.
C10_SetupHaltsAtFirstFailure ==
    /\ pc = "assistant" => Truthy(ret) /\ ret = vector_store_id
    /\ pc = "thread" => Truthy(ret) /\ ret = assistant_id
    /\ event = "setup" =>
          \A i \in DOMAIN calls :
             /\ calls[i].op = "assistants.create" =>
                   /\ Truthy(calls[i].arg)
                   /\ \E j \in 1..(i - 1) :
                         /\ calls[j].op = "file_batches.upload_and_poll"
                         /\ calls[j].ok
                         /\ calls[j].arg = calls[i].arg
             /\ calls[i].op = "threads.create" =>
                   \E j \in 1..(i - 1) :
                      calls[j].op = "assistants.create" /\ calls[j].ok
             /\ ~calls[i].ok => i = Len(calls)

C10_Witness ==
    /\ AtEndOf("setup") /\ Raised(calls)
    /\ Last(calls).op = "assistants.create"
    /\ ~HasCall("threads.create")
\* C11: a script run that finds no API key, or whose client initialisation
\* fails, issues no remote call, leaves the handles and the chat history as
\* they were and starts no handler, whatever UI event triggered it; hence
\* no handler is ever in progress while the key field is empty.
C11_GateBlocksEverything ==
    [][/\ (pc = "idle" /\ (api_key' = "" \/ display' = <<GateMessage(api_key')>>)) =>
             /\ pc' = "idle"
             /\ calls' = <<>>
             /\ UNCHANGED <<messages, assistant_id, thread_id, vector_store_id>>
             /\ UNCHANGED remote
             /\ panel' = NoPanel
       /\ api_key' = "" => (pc' = "idle" /\ calls' = <<>>)]_vars

C11_Witness ==
    /\ pc = "idle"
    /\ api_key = ""
    /\ display = <<GateMessage("")>>
    /\ AllSet
    /\ messages # <<>>
\* C12: when every remote call returns or raises and the run ends, every
\* submitted turn finishes, with an assistant turn appended or an error
\* shown, and the script run ends; while the last status is queued or
\* in_progress the loop is never left except by a raising fetch, after any
\* number of fetches, and while a script run is in progress no UI event is
\* taken up.
C12_TurnsFinish ==
    /\ (pc \in TurnPcs) ~>
          (AtEndOf("chat") /\ (Last(messages).role = "assistant" \/ display # <<>>))
    /\ AtEndOf("chat") ~> (pc = "idle")
    /\ [][(pc = "poll" /\ run.status \in Polling) =>
             \/ (pc' = "poll" /\ NumFetches' = NumFetches + 1)
             \/ (pc' = "footer" /\ Raised(calls'))]_vars
    /\ [](pc # "idle" => ~ENABLED UIEvent)

C12_Witness ==
    /\ AtEndOf("chat")
    /\ NumFetches = MaxPolls
    /\ Last(messages).role = "assistant"

\* C13: inside every turn the user turn is in the local history before any
\* remote call; the calls are messages.create, then runs.create, then
\* runs.retrieve any number of times, then messages.list at most once; each
\* call is made only after the previous one returned; every call names the
\* current conversation handle, every fetch names the run that was started,
\* and messages.list comes only after a status of completed was observed.
C13_ProtocolOrder ==
    event = "chat" =>
        /\ pc \in TurnPcs => (messages # <<>> /\ Last(messages) = Turn("user", prompt))
        /\ \A i \in DOMAIN calls :
              /\ calls[i].thread = thread_id
              /\ i > 1 => calls[i - 1].ok
              /\ i = 1 => calls[i].op = "messages.create"
              /\ i = 2 => (calls[i].op = "runs.create" /\ calls[i].arg = assistant_id)
              /\ i > 2 =>
                    \/ calls[i].op = "runs.retrieve" /\ calls[i].arg = run.id
                    \/ /\ calls[i].op = "messages.list"
                       /\ i = Len(calls)
                       /\ Last(Observed) = "completed"

C13_Witness ==
    /\ AtEndOf("chat")
    /\ Len(calls) = 5
    /\ Last(calls).op = "messages.list"
    /\ Len(Fetched) = 2

\* C14: a step of a chat turn only appends to the local history and leaves
\* the three handles unchanged; a step of a setup run leaves the history
\* unchanged; Clear Chat leaves the index handle and the assistant handle
\* unchanged; and no step other than Clear Chat changes or removes a turn
\* of the history.
C14_HistoryAppendOnly ==
    [][/\ (event = "chat" \/ event' = "chat") =>
             (IsPrefix(messages, messages') /\ UNCHANGED handles)
       /\ (event = "setup" \/ event' = "setup") => UNCHANGED messages
       /\ (event = "clear" \/ event' = "clear") =>
             UNCHANGED <<vector_store_id, assistant_id>>
       /\ ~IsPrefix(messages, messages') => event' = "clear"]_vars

C14_Witness ==
    /\ AtEndOf("setup")
    /\ Len(messages) = 2
    /\ Last(messages).role = "assistant"

\* C15: between script runs, whenever the assistant handle is set, the
\* assistant it names was created on the index the index handle names.
C15_AssistantOnCurrentIndex ==
    (pc = "idle" /\ Truthy(assistant_id)) =>
        /\ assistant_id \in DOMAIN assistants
        /\ assistants[assistant_id] = vector_store_id

Count(h, role) == Cardinality({i \in DOMAIN h : h[i].role = role})

\* C16: the local history is well formed in every reachable state: every
\* turn has role user or assistant, the first turn is a user turn, every
\* assistant turn directly follows a user turn, and there are at most as
\* many assistant turns as user turns.
C16_HistoryWellFormed ==
    /\ \A i \in DOMAIN messages :
          /\ messages[i].role \in {"user", "assistant"}
          /\ i = 1 => messages[i].role = "user"
          /\ messages[i].role = "assistant" =>
                (i > 1 /\ messages[i - 1].role = "user")
    /\ Count(messages, "assistant") <= Count(messages, "user")

C16_Witness ==
    /\ pc = "idle"
    /\ Len(messages) = 2
    /\ messages[1].role = "user"
    /\ messages[2].role = "user"

IsUser(m) == m.role = "user"

UserTexts(h) == LET us == SelectSeq(h, IsUser)
                IN  [i \in 1..Len(us) |-> us[i].content]

LocalUsers == UserTexts(messages)

RemoteUsers == IF thread_id \in DOMAIN threads
                 THEN UserTexts(threads[thread_id])
                 ELSE <<>>

\* The local user turns are the remote user messages; between line 200
\* and line 117 the submitted text is still to be sent.
InSync ==
    LocalUsers = RemoteUsers \o (IF pc = "messages_create" THEN <<prompt>> ELSE <<>>)

\* The three steps that end the correspondence: messages.create raising,
\* Clear Chat whose threads.create raised, and a setup run creating a new
\* thread, the last two under a history that is not empty.
SendFails == pc = "messages_create" /\ Raised(calls')
ClearFails == pc = "idle" /\ event' = "clear" /\ Raised(calls') /\ messages # <<>>
SetupReplacesThread == pc = "thread" /\ ~Raised(calls') /\ messages # <<>>
Desync == SendFails \/ ClearFails \/ SetupReplacesThread

\* C17 as stated: between turns the user turns of the local history are,
\* in order, the user messages of the remote conversation the conversation
\* handle names.
C17_LocalMatchesRemote == pc = "idle" => LocalUsers = RemoteUsers

\* C17 amended: the correspondence holds when the session starts and after
\* every Clear Chat whose threads.create returned; a step taken while it
\* holds keeps it, except the three desynchronising steps, which end it.
C17_SyncUnlessDesync ==
    /\ InSync
    /\ [][/\ (InSync /\ ~Desync) => InSync'
          /\ (InSync /\ Desync) => ~InSync'
          /\ (pc = "idle" /\ event' = "clear" /\ ~Raised(calls')) => InSync']_vars

C17_Witness ==
    /\ pc = "idle"
    /\ InSync
    /\ LocalUsers = <<"p", "q">>

====
